---- MODULE Spec2Model ----
(***************************************************************************)
(* Ingestion-and-submission pipeline of ingest-companies-people:           *)
(* the axios transport clients (services/api, cors-template/api/client.js, *)
(* services/mcp-api.js), the submission functions postMarketingCompanies   *)
(* and mcpDirectInsert, and the submit handler of IngestionForm.           *)
(***************************************************************************)
EXTENDS Integers, Sequences, FiniteSets, TLC

\* ---------------------------------------------------------------- bounds
MaxRecords == 2          \* longest record sequence handed to the form
MaxInitRetryCount == 1   \* largest _retryCount a caller puts in a request config
MaxSent == 4             \* cap on requests of one logical call
MaxRows == 11            \* longest parsed data handed to the preview

\* ------------------------------------------------------ JavaScript values
\* `undefined` for a numeric property (a missing _retryCount, status, count).
Undefined == -1
\* `undefined` for a body / data property.
NoData == "undefined"

\* JavaScript truthiness of a number-or-undefined: undefined and 0 are falsy.
Truthy(v) == v # Undefined /\ v # 0

\* a || b on number-or-undefined operands.
JsOr(a, b) == IF Truthy(a) THEN a ELSE b

\* a < b : undefined converts to NaN and every comparison with NaN is false.
JsLess(a, b) == a # Undefined /\ b # Undefined /\ a < b

RECURSIVE Pow2(_)
\* Math.pow(2, n) for n >= 0.
Pow2(n) == IF n <= 0 THEN 1 ELSE 2 * Pow2(n - 1)

Min(a, b) == IF a <= b THEN a ELSE b

\* ------------------------------------------------------ axios outcomes
\* error.response of an axios error that carries no HTTP response.
NoResponse == [present |-> FALSE, status |-> Undefined, data |-> NoData]

HttpStatuses == {403, 500}
ErrorBodies == {NoData, "error body"}

\* The request never produced an HTTP response (connection refused, DNS,
\* or a cross-origin rejection by the browser): axios code ERR_NETWORK.
RawNetwork ==
  [kind |-> "network", code |-> "ERR_NETWORK", message |-> "Network Error",
   response |-> NoResponse]

\* The request was aborted after `timeout` ms: axios code ECONNABORTED.
RawTimeout ==
  [kind |-> "timeout", code |-> "ECONNABORTED",
   message |-> "timeout of 30000ms exceeded", response |-> NoResponse]

\* The server answered with status s >= 400 and body b.
RawHttp(s, b) ==
  [kind |-> "http",
   code |-> IF s >= 500 THEN "ERR_BAD_RESPONSE" ELSE "ERR_BAD_REQUEST",
   message |-> IF s = 403 THEN "Request failed with status code 403"
               ELSE "Request failed with status code 500",
   response |-> [present |-> TRUE, status |-> s, data |-> b]]

NoRaw == [kind |-> "none", code |-> "", message |-> "", response |-> NoResponse]

RawErrors ==
  {RawNetwork, RawTimeout} \cup {RawHttp(s, b) : s \in HttpStatuses, b \in ErrorBodies}

\* error.response?.status and error.response?.data
ResponseStatus(e) == IF e.response.present THEN e.response.status ELSE Undefined
ResponseData(e) == IF e.response.present THEN e.response.data ELSE NoData

\* Body of a 2xx answer of POST /insert.  isNull: the body decodes to null;
\* inserted / failed: the reported counts (Undefined when omitted);
\* dataRecords: length of body.data.records when it is an array.
Counts == {Undefined} \cup (0 .. MaxRecords)
NullBody == [isNull |-> TRUE, inserted |-> Undefined, failed |-> Undefined,
             dataRecords |-> Undefined]
ServerBodies ==
  {NullBody} \cup
  {[isNull |-> FALSE, inserted |-> i, failed |-> f, dataRecords |-> Undefined] :
     i \in Counts, f \in Counts} \cup
  {[isNull |-> FALSE, inserted |-> Undefined, failed |-> Undefined,
    dataRecords |-> d] : d \in 0 .. MaxRecords}
NoBody == [isNull |-> FALSE, inserted |-> Undefined, failed |-> Undefined,
           dataRecords |-> Undefined]

\* ------------------------------------------------------ transport clients
\* "api"    : services/api  (the default service client)
\* "render" : createRenderApiClient(config)
\* "mcp"    : mcpApiClient
Clients == {"api", "render", "mcp"}
RetryingClients == {"api", "render"}
RetryAttemptsValues == {1, 2, 3}
DefaultRetryAttempts == 3

\* Upper limit the retry guard compares _retryCount with.
RetryLimit(c, ra) == IF c = "api" THEN 2 ELSE ra - 1

\* Variant: the retry guard without the ERR_NETWORK test.
ShouldRetryAnyError(c, e, rq, ra) ==
  /\ c \in RetryingClients
  /\ ~rq._retry
  /\ JsLess(rq._retryCount, RetryLimit(c, ra))

\* Guard of the retry branch of the response error interceptor.
ShouldRetry(c, e, rq, ra) ==
  /\ c \in RetryingClients
  /\ e.code = "ERR_NETWORK"
  /\ ~rq._retry
  /\ JsLess(rq._retryCount, RetryLimit(c, ra))

\* originalRequest after the retry branch marked it.
MarkRetryForgets(rq) == rq

MarkRetry(rq) == [_retry |-> TRUE, _retryCount |-> JsOr(rq._retryCount, 0) + 1]

\* Variant: the exponent taken from the count instead of count - 1.
BackoffDelayExponentOff(c, n) == IF c = "api" THEN 1000 * n ELSE 1000 * Pow2(n)

\* Milliseconds the interceptor waits before resending; n is the
\* _retryCount after the increment.
BackoffDelay(c, n) == IF c = "api" THEN 1000 * n ELSE 1000 * Pow2(n - 1)

\* The object the response error interceptor rejects with.
EnhancedError(c, e, rq) ==
  IF c = "mcp"
  THEN [message |-> e.message, status |-> ResponseStatus(e), data |-> ResponseData(e),
        response |-> NoResponse,
        isCorsError |-> FALSE,
        isNetworkError |-> (e.code = "ERR_NETWORK"),
        isTimeout |-> (e.code = "ECONNABORTED"),
        retryCount |-> 0]
  ELSE [message |-> e.message, status |-> ResponseStatus(e), data |-> ResponseData(e),
        response |-> NoResponse,
        isCorsError |-> (e.code = "ERR_NETWORK" \/ ResponseStatus(e) = 0),
        isNetworkError |-> (e.code = "ERR_NETWORK"),
        isTimeout |-> (e.code = "ECONNABORTED"),
        retryCount |-> JsOr(rq._retryCount, 0)]

NoError == [message |-> "", status |-> Undefined, data |-> NoData,
            response |-> NoResponse, isCorsError |-> FALSE,
            isNetworkError |-> FALSE, isTimeout |-> FALSE, retryCount |-> 0]

\* The classes a rejected error is flagged with.
KindsOf(e) ==
  (IF e.isCorsError THEN {"Cors"} ELSE {}) \cup
  (IF e.isNetworkError THEN {"Network"} ELSE {}) \cup
  (IF e.isTimeout THEN {"Timeout"} ELSE {}) \cup
  (IF e.status # Undefined /\ e.status >= 400 THEN {"HttpStatus"} ELSE {})


\* ------------------------------------------------------ submission functions
\* Text shown to the operator: a sequence of string fragments, <<>> is "".
DefaultTargetTable == "marketing db.intake.company_raw_intake"

\* The TypeError a property read on a null body raises inside the try block.
NullBodyError ==
  [message |-> "Cannot read properties of null", status |-> Undefined,
   data |-> NoData, response |-> NoResponse, isCorsError |-> FALSE,
   isNetworkError |-> FALSE, isTimeout |-> FALSE, retryCount |-> 0]

NoResult ==
  [present |-> FALSE, thrown |-> FALSE, success |-> FALSE,
   inserted |-> Undefined, failed |-> Undefined,
   hasMessage |-> FALSE, message |-> <<>>,
   errMessage |-> "", errStatus |-> Undefined, errData |-> NoData,
   hasKind |-> FALSE, isCorsError |-> FALSE, isNetworkError |-> FALSE,
   isTimeout |-> FALSE]

\* Variant: the catch block rethrows instead of returning a failure result.
PostMarketingCompaniesFailureRethrows(e) ==
  [NoResult EXCEPT !.present = TRUE,
                   !.thrown = TRUE,
                   !.errMessage = e.message]

\* catch block of postMarketingCompanies: errorDetails and the message.
PostMarketingCompaniesFailure(e) ==
  [NoResult EXCEPT !.present = TRUE,
                   !.hasMessage = TRUE,
                   !.message = <<"Failed to upload companies: ", e.message>>,
                   !.errMessage = e.message,
                   !.errStatus = ResponseStatus(e),
                   !.errData = ResponseData(e)]

\* postMarketingCompanies(records, targetTable) once apiClient.post settled:
\* ok = the promise resolved with body b, otherwise it rejected with e.
PostMarketingCompanies(recs, ok, b, e) ==
  IF ok
  THEN IF b.isNull
       THEN PostMarketingCompaniesFailure(NullBodyError)
       ELSE [NoResult EXCEPT !.present = TRUE,
                             !.success = TRUE,
                             !.inserted = JsOr(b.inserted, Len(recs)),
                             !.failed = JsOr(b.failed, 0),
                             !.hasMessage = TRUE,
                             !.message = <<"Companies uploaded successfully">>]
  ELSE PostMarketingCompaniesFailure(e)

\* catch block of mcpDirectInsert: error.message || 'MCP insertion failed',
\* details: error.data; the result has no message property.
McpDirectInsertFailure(e) ==
  [NoResult EXCEPT !.present = TRUE,
                   !.errMessage = IF e.message = "" THEN "MCP insertion failed"
                                  ELSE e.message,
                   !.errData = e.data]

\* mcpDirectInsert(records, targetTable) once mcpApiClient.post settled.
McpDirectInsert(recs, ok, b, e) ==
  IF ok
  THEN IF b.isNull
       THEN McpDirectInsertFailure(NullBodyError)
       ELSE [NoResult EXCEPT !.present = TRUE,
                             !.success = TRUE,
                             !.inserted = IF b.dataRecords # Undefined
                                          THEN b.dataRecords ELSE Len(recs),
                             !.failed = 0,
                             !.hasMessage = TRUE,
                             !.message = <<"Records processed successfully">>]
  ELSE McpDirectInsertFailure(e)

\* new Error(result.message).message : an undefined message gives "".
ErrorMessageOf(r) == IF r.hasMessage THEN r.message ELSE <<>>

NoToast == [variant |-> "none", title |-> "", description |-> <<>>,
            inserted |-> Undefined, failed |-> Undefined]

\* The toast handleSubmit raises for the result of the submission function.
SubmitToast(r) ==
  IF r.thrown
  THEN [NoToast EXCEPT !.variant = "destructive", !.title = "Upload Failed",
                       !.description = <<r.errMessage>>]
  ELSE IF r.success
  THEN [NoToast EXCEPT !.variant = "default", !.title = "Upload Successful",
                       !.inserted = r.inserted, !.failed = r.failed]
  ELSE [NoToast EXCEPT !.variant = "destructive", !.title = "Upload Failed",
                       !.description = ErrorMessageOf(r)]

\* ------------------------------------------------------ state
VARIABLES
  client,        \* the axios instance serving the current logical call
  retryAttempts, \* config.retryAttempts of the created render client
  req,           \* originalRequest: [_retry, _retryCount]
  tpc,           \* the call's promise: idle / inflight / waiting / resolved / rejected
  sent,          \* requests put on the wire for the current logical call
  netFails,      \* ERR_NETWORK failures in a row since the call began
  delay,         \* backoff (ms) of the retry being waited for
  raw,           \* the axios outcome of the latest attempt
  err,           \* the object the promise rejected with
  resp,          \* body of the response the promise resolved with
  caller,        \* who awaits the call: none / form / postData / request /
                 \* postMarketingCompanies / mcpDirectInsert
  delivered,     \* what the last finished entry point handed its caller
  records,       \* props.records of IngestionForm
  endpoint,      \* form state: endpoint
  targetTable,   \* form state: targetTable
  useMCP,        \* form state: useMCP
  isUploading,   \* form state: isUploading
  uploadResult,  \* form state: uploadResult
  toast,         \* the last toast raised
  postCalls,     \* POST /insert calls the current submit action made
  wire,          \* payload of the last POST /insert of a submission function
  ipc,           \* parseGoogleSheetUrl: idle / fetch1 / fetch2 / done
  sheetUrl,      \* the url argument of parseGoogleSheetUrl
  requests,      \* export requests issued by the current import, in order
  firstOutcome,  \* what the direct export request came back with
  lastOutcome,   \* what the latest export request came back with
  papa,          \* the result Papa.parse handed to the latest complete callback
  parseResult,   \* the ParseResult of the latest parseFile / parseGoogleSheetUrl
  handed,        \* the data handed to Index.handleDataParsed
  previewRecords,\* RecordPreviewTable: the rows displayed
  columns,       \* RecordPreviewTable: the column names
  payload,       \* the payload a formatter built last
  probe,         \* the diagnostic function or tester panel running, or "none"
  ppc,           \* position of the running probe: idle / health / fallback
  preq,          \* request config of the axios request the probe awaits
  probeLog,      \* requests issued by the latest diagnostic action, in order
  legs,          \* outcome of each request of the running / latest probe
  probeResult,   \* what the latest probe handed to its caller
  tests,         \* tester panel: number of the test it is at (0: not running)
  conn,          \* state of the connection-status component
  rejection      \* what a client of createApiClient rejected with last

vars == <<client, retryAttempts, req, tpc, sent, netFails, delay, raw, err, resp,
          caller, delivered, records, endpoint, targetTable, useMCP,
          isUploading, uploadResult, toast, postCalls, wire,
          ipc, sheetUrl, requests, firstOutcome, lastOutcome, papa, parseResult,
          handed, previewRecords, columns, payload,
          probe, ppc, preq, probeLog, legs, probeResult, tests, conn, rejection>>

importVars == <<ipc, sheetUrl, requests, firstOutcome, lastOutcome, papa, parseResult>>
previewVars == <<handed, previewRecords, columns>>
formatVars == <<payload>>
probeVars == <<probe, ppc, preq, probeLog, legs, probeResult, tests>>
diagVars == <<probeVars, conn, rejection>>

transportVars == <<client, req, tpc, sent, netFails, delay, raw, err, resp>>
formVars == <<records, endpoint, targetTable, useMCP, isUploading,
              uploadResult, toast, postCalls, wire>>

RecordIds == {"r1", "r2"}
RecordSets == UNION {[1 .. n -> RecordIds] : n \in 0 .. MaxRecords}
Endpoints == {"", "https://render-marketing-db.onrender.com"}
TargetTables == {"", "people"}
InitRetryCounts == {Undefined} \cup (0 .. MaxInitRetryCount)
FreshRequest == [_retry |-> FALSE, _retryCount |-> Undefined]
NothingDelivered == [entry |-> "none", outcome |-> "none"]
\* The entry point returned a value to its caller / threw or rejected.
Delivered(entry, outcome) == [entry |-> entry, outcome |-> outcome]
NoWire == [records |-> <<>>, target_table |-> "", via |-> "none"]

\* ------------------------------------------------------ record contents
\* The fields of the records the model names, as <<name, value>> pairs in
\* key order. r2 has a field r1 lacks; r3 carries a created_at value, r4 an
\* empty one; r5 and r6 are rows under the headers of a company and of an
\* Apollo export.
AllRecordIds == {"r1", "r2", "r3", "r4", "r5", "r6"}
Fields(r) ==
  IF r = "r1" THEN <<<<"company_name", "Acme">>, <<"domain", "acme.com">>>>
  ELSE IF r = "r2" THEN <<<<"company_name", "Globex">>, <<"domain", "globex.com">>,
                          <<"phone", "555-0100">>>>
  ELSE IF r = "r3" THEN <<<<"company_name", "Initech">>,
                          <<"created_at", "2024-01-01T00:00:00.000Z">>>>
  ELSE IF r = "r4" THEN <<<<"created_at", "">>, <<"company_name", "Hooli">>>>
  ELSE IF r = "r5" THEN <<<<"Company Name", "Acme">>, <<"Name", "Acme Inc">>,
                          <<"Website", "acme.com">>>>
  ELSE <<<<"First Name", "Ada">>, <<"Email", "ada@example.com">>>>

\* Object.keys(record)
Keys(fs) == [i \in DOMAIN fs |-> fs[i][1]]

\* ------------------------------------------------- RecordPreviewTable
PreviewLimit == 10

\* records.slice(0, 10)
PreviewSliceAll(rs) == rs

PreviewSlice(rs) == SubSeq(rs, 1, Min(Len(rs), PreviewLimit))

\* records.length > 0 ? Object.keys(records[0]) : []
PreviewColumnsOfLast(rs) == IF Len(rs) > 0 THEN Keys(Fields(rs[Len(rs)])) ELSE <<>>

PreviewColumns(rs) == IF Len(rs) > 0 THEN Keys(Fields(rs[1])) ELSE <<>>

\* Parsed data of n rows: the two records alternate, starting with first.
RowsOf(n, first) ==
  [i \in 1 .. n |-> IF (i % 2 = 1) = (first = "r1") THEN "r1" ELSE "r2"]
ParsedRowSets == {RowsOf(n, first) : n \in 0 .. MaxRows, first \in RecordIds}

\* ------------------------------------------------------ payload formatters
\* new Date().toISOString() at the time of formatting.
NowIso == "<now>"
\* record[name] for a name the record lacks.
NoValue == "<undefined>"
FormatterNames ==
  {"formatRenderInsertPayload", "formatRenderPayload", "postMarketingCompanies",
   "formatCsvPayload"}

HasField(fs, name) == \E i \in DOMAIN fs : fs[i][1] = name
\* record[name]
FieldValue(fs, name) ==
  IF HasField(fs, name)
    THEN fs[CHOOSE i \in DOMAIN fs : fs[i][1] = name][2]
    ELSE NoValue
\* Truthiness of a field value: undefined and the empty string are falsy.
TruthyValue(v) == v # NoValue /\ v # ""
\* record[name] = v, also { ...record, name: v }: an own key keeps its place,
\* a new key goes last.
SetField(fs, name, v) ==
  IF HasField(fs, name)
    THEN [i \in DOMAIN fs |-> IF fs[i][1] = name THEN <<name, v>> ELSE fs[i]]
    ELSE Append(fs, <<name, v>>)

\* The data argument of a formatter: an array of records or a single record
\* (items then holds that one record).
FormatInputs ==
  {[isArray |-> TRUE, items |-> rs] :
      rs \in UNION {[1 .. n -> AllRecordIds] : n \in 0 .. MaxRecords}}
    \cup {[isArray |-> FALSE, items |-> <<r>>] : r \in AllRecordIds}
FormatTargets == {"company.marketing_company", "people"}
\* Array.isArray(data) ? data : [data]
RecordsArray(d) == d.items

\* record.created_at || new Date().toISOString()
CreatedAtOrNowAlways(fs) == NowIso

CreatedAtOrNow(fs) ==
  IF TruthyValue(FieldValue(fs, "created_at"))
    THEN FieldValue(fs, "created_at")
    ELSE NowIso

\* payloadFormatter.js: one record of formatRenderInsertPayload, with
\* timestampField 'created_at' and no transformRecord.
FormatRenderInsertRecord(fs, addTimestamp) ==
  IF addTimestamp /\ ~TruthyValue(FieldValue(fs, "created_at"))
    THEN SetField(fs, "created_at", NowIso)
    ELSE fs

FormatRenderInsertPayload(d, t, addTimestamp) ==
  [formatter |-> "formatRenderInsertPayload", input |-> d, addTimestamp |-> addTimestamp, mapping |-> "none",
   records |-> [i \in DOMAIN RecordsArray(d) |->
                  FormatRenderInsertRecord(Fields(RecordsArray(d)[i]), addTimestamp)],
   target_table |-> t]

\* client.js: formatRenderPayload.
FormatRenderPayload(d, t) ==
  [formatter |-> "formatRenderPayload", input |-> d, addTimestamp |-> TRUE, mapping |-> "none",
   records |-> [i \in DOMAIN RecordsArray(d) |->
                  SetField(Fields(RecordsArray(d)[i]), "created_at",
                           CreatedAtOrNow(Fields(RecordsArray(d)[i])))],
   target_table |-> t]

\* services.js: requestData of postMarketingCompanies.
RequestData(rs, t) ==
  [formatter |-> "postMarketingCompanies", input |-> [isArray |-> TRUE, items |-> rs],
   addTimestamp |-> FALSE, mapping |-> "none",
   records |-> [i \in DOMAIN rs |-> Fields(rs[i])],
   target_table |-> t]

\* FIELD_MAPPINGS and the default fieldMapping = {}, as <<csv field, database
\* field>> pairs.
MappingNames == {"none", "company", "apollo"}
FieldMapping(m) ==
  IF m = "company"
    THEN <<<<"Company Name", "company_name">>, <<"Name", "company_name">>,
           <<"Website", "domain">>, <<"Domain", "domain">>,
           <<"Industry", "industry">>, <<"Employees", "employee_count">>,
           <<"Employee Count", "employee_count">>, <<"Size", "employee_count">>>>
  ELSE IF m = "apollo"
    THEN <<<<"First Name", "first_name">>, <<"Last Name", "last_name">>,
           <<"Email", "email">>, <<"Company", "company_name">>,
           <<"Title", "job_title">>, <<"LinkedIn", "linkedin_url">>>>
  ELSE <<>>

\* fieldMapping[csvField] || csvField
DbField(m, csvField) ==
  IF TruthyValue(FieldValue(FieldMapping(m), csvField))
    THEN FieldValue(FieldMapping(m), csvField)
    ELSE csvField

RECURSIVE TransformInto(_, _, _)
\* The forEach of transformRecord: transformed[dbField] = record[csvField],
\* key by key.
TransformInto(transformed, fs, m) ==
  IF fs = <<>>
    THEN transformed
    ELSE TransformInto(SetField(transformed, DbField(m, Head(fs)[1]), Head(fs)[2]),
                       Tail(fs), m)

\* transformRecord(record) of formatCsvPayload
TransformRecord(fs, m) == TransformInto(<<>>, fs, m)

\* formatCsvPayload: formatRenderInsertPayload with transformRecord and the
\* default addTimestamp.
FormatCsvPayload(d, t, m) ==
  [formatter |-> "formatCsvPayload", input |-> d, addTimestamp |-> TRUE, mapping |-> m,
   records |-> [i \in DOMAIN RecordsArray(d) |->
                  FormatRenderInsertRecord(TransformRecord(Fields(RecordsArray(d)[i]), m),
                                           TRUE)],
   target_table |-> t]

NoPayload ==
  [formatter |-> "none", input |-> [isArray |-> TRUE, items |-> <<>>],
   addTimestamp |-> FALSE, mapping |-> "none", records |-> <<>>, target_table |-> ""]

\* ------------------------------------------------- parseCsv.ts : values
\* A ParseResult {data, error?} as the caller receives it; thrown marks a
\* promise that rejected instead of resolving to a ParseResult.
NoParseResult ==
  [present |-> FALSE, thrown |-> FALSE, data |-> <<>>, hasError |-> FALSE,
   error |-> <<>>]

\* resolve({ data }) / resolve({ data, error: null })
ParsedData(rows) ==
  [present |-> TRUE, thrown |-> FALSE, data |-> rows, hasError |-> FALSE,
   error |-> <<>>]

\* { data: [], error: text }
ParseFailure(text) ==
  [present |-> TRUE, thrown |-> FALSE, data |-> <<>>, hasError |-> TRUE,
   error |-> text]

\* The url argument, by the two parts the regular expressions look for:
\* the id after /spreadsheets/d/ and the digits after #gid= or &gid=
\* ("" when the url has no such part).
SheetUrls == [sheetId : {"", "1AbC"}, gid : {"", "123"}]
NoUrl == [sheetId |-> "", gid |-> ""]

\* url.match(/\/spreadsheets\/d\/([a-zA-Z0-9-_]+)/): the captured id, "" for
\* no match.
SheetIdMatchLoose(u) == IF u.sheetId = "" THEN "unknown" ELSE u.sheetId

SheetIdMatch(u) == u.sheetId

\* gidMatch ? gidMatch[1] : '0'
GidOf(u) == IF u.gid = "" THEN "0" ELSE u.gid

\* .../d/${sheetId}/export?format=csv&gid=${gid}
CsvUrl(u) == [candidate |-> "export", sheetId |-> SheetIdMatch(u), gid |-> GidOf(u)]
\* .../d/${sheetId}/gviz/tq?tqx=out:csv&gid=${gid}
AltCsvUrl(u) == [candidate |-> "gviz", sheetId |-> SheetIdMatch(u), gid |-> GidOf(u)]

\* What a fetch of an export URL comes back with: a rejection (network or
\* CORS failure) or a response with a status and a body. An ok body is CSV
\* with rows, CSV with an unterminated quote, blank, or a stream whose text()
\* rejects; the body of a non-ok response is never read.
SheetStatuses == {200, 400, 403, 404, 500}
ResponseOk(s) == s >= 200 /\ s <= 299
OkBodies == {"rows", "malformed", "blank", "unreadable"}
NoOutcome == [kind |-> "none", status |-> Undefined, body |-> "none", message |-> ""]
FetchRejected == [kind |-> "throw", status |-> Undefined, body |-> "none", message |-> "Failed to fetch"]
FetchResponse(s, b) == [kind |-> "response", status |-> s, body |-> b, message |-> ""]
FetchOutcomes ==
  {FetchRejected}
    \cup {FetchResponse(s, "none") : s \in {s \in SheetStatuses : ~ResponseOk(s)}}
    \cup {FetchResponse(s, b) : s \in {s \in SheetStatuses : ResponseOk(s)}, b \in OkBodies}

\* The result Papa.parse hands to complete, header: true: the rows read and
\* the errors met. An unterminated quote is reported in errors while the rows
\* read so far stay in data.
NoPapa == [ran |-> FALSE, data |-> <<>>, errors |-> <<>>]
PapaParse(text) ==
  IF text = "malformed"
    THEN [ran |-> TRUE, data |-> <<"r1">>, errors |-> <<"Quoted field unterminated">>]
    ELSE [ran |-> TRUE, data |-> <<"r1", "r2">>, errors |-> <<>>]

\* ------------------------------------------- parseGoogleSheetUrl : texts
InvalidUrlError ==
  <<"Invalid Google Sheets URL. Please make sure you're using a valid Google Sheets link.">>
AccessDeniedError ==
  <<"Access denied. Please make sure the Google Sheet is shared properly:",
    "3. Change \"Restricted\" to \"Anyone with the link\"">>
NotFoundError ==
  <<"Google Sheet not found. Please check the URL and make sure the sheet exists.">>
BadRequestErrorBare ==
  <<"Bad request (", "400", "). This usually means the sheet isn't properly shared.">>

BadRequestError ==
  <<"Bad request (", "400", "). This usually means the sheet isn't properly shared. Please:",
    "1. Make sure the sheet is shared as \"Anyone with the link can view\"">>
FetchFailedError(s) == <<"Failed to fetch Google Sheet data: ", ToString(s)>>
EmptySheetError == <<"Google Sheet appears to be empty or inaccessible.">>
SheetParsingError(m) == <<"Google Sheets parsing error: ", m>>
ImportFailedError(m) == <<"Failed to import Google Sheet: ", m>>

\* if (response.status === 400): the only case in which the alternative
\* export URL is fetched.
TriesAlternativeOnAnyStatus(o) == TRUE

TriesAlternative(o) == o.status = 400

\* The chain of returns for a response that is not ok.
StatusFailureGeneric(s) == ParseFailure(FetchFailedError(s))

StatusFailure(s) ==
  IF s = 403 THEN ParseFailure(AccessDeniedError)
  ELSE IF s = 404 THEN ParseFailure(NotFoundError)
  ELSE IF s = 400 THEN ParseFailure(BadRequestError)
  ELSE ParseFailure(FetchFailedError(s))

\* complete of the primary export: errors are checked before data is used.
SheetCompleteKeepsRows(result) ==
  IF Len(result.errors) > 0
    THEN [present |-> TRUE, thrown |-> FALSE, data |-> result.data,
          hasError |-> TRUE, error |-> SheetParsingError(result.errors[1])]
    ELSE ParsedData(result.data)

SheetComplete(result) ==
  IF Len(result.errors) > 0
    THEN ParseFailure(SheetParsingError(result.errors[1]))
    ELSE ParsedData(result.data)

\* complete of the alternative export: resolve({ data: result.data, error: null })
AltSheetComplete(result) == ParsedData(result.data)

\* The outer catch of parseGoogleSheetUrl.
ImportCatchRethrows(m) ==
  [present |-> TRUE, thrown |-> TRUE, data |-> <<>>, hasError |-> FALSE,
   error |-> <<>>]

ImportCatch(m) == ParseFailure(ImportFailedError(m))

\* The body of parseGoogleSheetUrl after an ok response of the direct export.
DirectBody(o) ==
  IF o.body = "unreadable" THEN ImportCatch("body stream already read")
  ELSE IF o.body = "blank" THEN ParseFailure(EmptySheetError)
  ELSE SheetComplete(PapaParse(o.body))

\* The alternative export yields a result only when its response is ok and
\* its text is not blank; a rejection of the fetch or of text() is swallowed
\* by the inner catch.
AltYields(o) == o.kind = "response" /\ ResponseOk(o.status) /\ o.body \in {"rows", "malformed"}

\* ----------------------------------------------------------- parseFile
Extensions == {"csv", "json", "xlsx", "xls", "txt"}
\* What reading the file gives, by extension.
FileContents(ext) ==
  IF ext = "csv" THEN {"rows", "malformed", "unreadable"}
  ELSE IF ext = "json" THEN {"array", "object", "invalid", "unreadable"}
  ELSE IF ext \in {"xlsx", "xls"} THEN {"workbook", "corrupt", "unreadable"}
  ELSE {"any"}

\* complete of Papa.parse(file): errors are checked before data is used.
FileCsvComplete(result) ==
  IF Len(result.errors) > 0
    THEN ParseFailure(<<"CSV parsing error: ", result.errors[1]>>)
    ELSE ParsedData(result.data)

\* Array.isArray(parsed) ? parsed : [parsed]
JsonData(c) == IF c = "array" THEN <<"r1", "r2">> ELSE <<"r1">>

ParseFileResult(ext, c) ==
  IF ext = "csv" THEN
    IF c = "unreadable" THEN ParseFailure(<<"Failed to parse CSV: ", "NotReadableError">>)
    ELSE FileCsvComplete(PapaParse(c))
  ELSE IF ext = "json" THEN
    IF c = "unreadable" THEN ParseFailure(<<"Failed to read JSON file">>)
    ELSE IF c = "invalid" THEN ParseFailure(<<"Invalid JSON format: ", "Unexpected token">>)
    ELSE ParsedData(JsonData(c))
  ELSE IF ext \in {"xlsx", "xls"} THEN
    IF c = "unreadable" THEN ParseFailure(<<"Failed to read Excel file">>)
    ELSE IF c = "corrupt" THEN ParseFailure(<<"Excel parsing error: ", "Unsupported file">>)
    ELSE ParsedData(<<"r1", "r2">>)
  ELSE ParseFailure(<<"Unsupported file format. Please upload CSV, JSON, or Excel files.">>)

\* The Papa result behind a parseFile call, when Papa.parse completed.
ParseFilePapa(ext, c) ==
  IF ext = "csv" /\ c # "unreadable" THEN PapaParse(c) ELSE NoPapa

\* ------------------------------------------------- diagnostic probes : values
\* What a probe hands to its caller. structured: an object with a success
\* flag (checkCorsHealth returns a string or null instead); thrown: the
\* promise rejected.
NoProbeResult ==
  [present |-> FALSE, probe |-> "none", thrown |-> FALSE, structured |-> FALSE,
   success |-> FALSE, message |-> <<>>]
ProbeReturns(p, structured, success, message) ==
  [present |-> TRUE, probe |-> p, thrown |-> FALSE, structured |-> structured,
   success |-> success, message |-> message]
ProbeThrows(p, message) ==
  [present |-> TRUE, probe |-> p, thrown |-> TRUE, structured |-> FALSE,
   success |-> FALSE, message |-> message]

\* corsDebugger.ts: the probes built on fetch.
FetchProbes == {"checkCorsHealth", "quickCorsTest", "testCorsWithCredentials"}
\* services.js checkHealth, client.js checkHealth and testConnectivity: the
\* probes built on an axios client.
HealthProbes == {"services.checkHealth", "client.checkHealth", "testConnectivity"}
TesterPanels == {"EnhancedApiTester", "ApiTester"}

Request(method, path) == [method |-> method, path |-> path]
NoRequest == [method |-> "none", path |-> ""]

\* What the fetch of a probe comes back with.
ProbeFetchOutcomes ==
  {FetchRejected} \cup {FetchResponse(s, "none") : s \in SheetStatuses}
FetchOk(o) == o.kind = "response" /\ ResponseOk(o.status)

\* checkCorsHealth: null when the response is ok, the explanation otherwise.
CheckCorsHealth(o) ==
  IF FetchOk(o)
    THEN ProbeReturns("checkCorsHealth", FALSE, TRUE, <<>>)
    ELSE ProbeReturns("checkCorsHealth", FALSE, FALSE,
           <<"CORS or Network error. Check if the server allows requests from this origin",
             IF o.kind = "throw" THEN o.message ELSE ToString(o.status)>>)

QuickCorsTest(o) ==
  IF FetchOk(o)
    THEN ProbeReturns("quickCorsTest", TRUE, TRUE, <<"CORS configuration is working correctly">>)
  ELSE IF o.kind = "response"
    THEN ProbeReturns("quickCorsTest", TRUE, FALSE,
           <<"Server responded with status ", ToString(o.status)>>)
  ELSE ProbeReturns("quickCorsTest", TRUE, FALSE, <<"Network error: ", o.message>>)

TestCorsWithCredentials(o) ==
  IF FetchOk(o)
    THEN ProbeReturns("testCorsWithCredentials", TRUE, TRUE, <<"CORS with credentials is working">>)
  ELSE IF o.kind = "response"
    THEN ProbeReturns("testCorsWithCredentials", TRUE, FALSE,
           <<"CORS with credentials failed: ", ToString(o.status)>>)
  ELSE ProbeReturns("testCorsWithCredentials", TRUE, FALSE,
         <<"CORS with credentials blocked: ", o.message>>)

FetchProbeResult(p, o) ==
  IF p = "checkCorsHealth" THEN CheckCorsHealth(o)
  ELSE IF p = "quickCorsTest" THEN QuickCorsTest(o)
  ELSE TestCorsWithCredentials(o)

\* The axios instance a health probe requests with.
ClientOfProbe(p) == IF p = "services.checkHealth" THEN "api" ELSE "render"

\* The path of the request a health probe awaits at position pos.
LegPathHealthOnly(pos) == "/api/health"

LegPath(pos) == IF pos = "health" THEN "/api/health" ELSE "/"

\* Did some request of the probe succeed?
SomeLegOk(ls) == \E i \in DOMAIN ls : ls[i] = "ok"

\* services.js checkHealth after its requests came back with ls.
ServicesCheckHealth(ls) ==
  IF ls[1] = "ok"
    THEN ProbeReturns("services.checkHealth", TRUE, TRUE, <<>>)
  ELSE IF ls[2] = "ok"
    THEN ProbeReturns("services.checkHealth", TRUE, TRUE, <<"Health check via base endpoint">>)
  ELSE ProbeReturns("services.checkHealth", TRUE, FALSE, <<"Health check failed">>)

\* client.js checkHealth: throws without a client and rethrows the error of
\* the health request when the fallback fails as well.
ClientCheckHealth(configured, ls) ==
  IF ~configured
    THEN ProbeThrows("client.checkHealth",
           <<"API client not configured. Set VITE_API_URL environment variable.">>)
  ELSE IF ls[1] = "ok" \/ ls[2] = "ok"
    THEN ProbeReturns("client.checkHealth", TRUE, TRUE, <<>>)
  ELSE ProbeThrows("client.checkHealth", <<"health check error">>)

\* testConnectivity: checkHealth inside try / catch.
TestConnectivityRethrows(h) ==
  IF h.thrown
    THEN ProbeThrows("testConnectivity", h.message)
    ELSE ProbeReturns("testConnectivity", TRUE, TRUE, <<"API connectivity confirmed">>)

TestConnectivity(h) ==
  IF h.thrown
    THEN ProbeReturns("testConnectivity", TRUE, FALSE, <<"API connectivity failed">>)
    ELSE ProbeReturns("testConnectivity", TRUE, TRUE, <<"API connectivity confirmed">>)

HealthProbeResult(p, configured, ls) ==
  IF p = "services.checkHealth" THEN ServicesCheckHealth(ls)
  ELSE IF p = "client.checkHealth" THEN ClientCheckHealth(configured, ls)
  ELSE TestConnectivity(ClientCheckHealth(configured, ls))

\* EnhancedApiTester.runAllTests: the request of each test, in order. The
\* third test calls postCompany, which services.js does not export: the call
\* fails inside testEndpoint's try and no request goes out.
EnhancedTests ==
  <<Request("GET", "/api/health"), Request("GET", "/api/marketing/companies"),
    NoRequest, Request("GET", "/api/apollo/raw"), Request("POST", "/api/apollo/raw"),
    Request("POST", "/insert")>>

\* ApiTester.testEndpoints: the request of each step, in order. Step 2 is
\* uploadToRender(endpoint, testData), whose module is not part of the
\* sources; the POST listed for it is the fetch the catch block issues when
\* it throws.
ApiTesterSteps ==
  <<Request("GET", ""), Request("POST", "/insert"),
    Request("GET", "/health"), Request("GET", "/status"), Request("GET", "/api"),
    Request("GET", "/docs"), Request("GET", "/swagger"), Request("GET", "/insert"),
    Request("GET", "/tables"), Request("GET", "/company"),
    Request("GET", "/company/marketing_company"), Request("GET", "/schema"),
    Request("GET", "/ping"), Request("OPTIONS", "/insert")>>

\* The requests test number n of a panel issues when its first request
\* comes back ok / not ok.
TestRequests(panel, n, ok) ==
  IF panel = "EnhancedApiTester"
    THEN IF EnhancedTests[n] = NoRequest THEN <<>>
         ELSE IF n = 1 /\ ~ok THEN <<EnhancedTests[1], Request("GET", "/")>>
         ELSE <<EnhancedTests[n]>>
    ELSE IF n = 2 THEN (IF ok THEN <<>> ELSE <<ApiTesterSteps[2]>>)
         ELSE <<ApiTesterSteps[n]>>
TestCount(panel) ==
  IF panel = "EnhancedApiTester" THEN Len(EnhancedTests) ELSE Len(ApiTesterSteps)

\* ------------------------------------------------- connection status : values
\* The ApiConnectionStatus component before it is mounted.
Unmounted ==
  [component |-> "none", autoCheck |-> FALSE, effectPending |-> FALSE,
   status |-> "unmounted", isLoading |-> FALSE, inFlight |-> "none", error |-> <<>>,
   corsTestResult |-> "null", lastCheck |-> "null"]
\* "app": components/ApiConnectionStatus; "template": the component of
\* cors-template.
ConnComponents == {"app", "template"}
InitialStatus(component) == IF component = "app" THEN "idle" ELSE "checking"
\* Does the effect of the first render start a check?
RunsCheckOnMount(component, autoCheck) == component = "app" \/ autoCheck

\* status after the Clear Status button.
ClearedStatus == "checking"

\* What a request through createApiClient(config) rejects with.
NoRejection ==
  [present |-> FALSE, enableLogging |-> FALSE, raw |-> NoRaw, hasEnhanced |-> FALSE,
   isCorsError |-> FALSE, isNetworkError |-> FALSE, status |-> Undefined,
   message |-> ""]
\* error.message.includes('CORS'): no message axios gives an error names CORS.
MessagesNamingCors == {}
IncludesCors(message) == message \in MessagesNamingCors
\* The failures a connection check is answered with.
ConnErrors == {RawNetwork, RawTimeout} \cup {RawHttp(s, NoData) : s \in HttpStatuses}

\* The response interceptors createApiClient installs: the one building
\* enhancedError exists only when config.enableLogging is set.
CreateApiClientReject(enableLogging, e) ==
  IF enableLogging
    THEN [present |-> TRUE, enableLogging |-> TRUE, raw |-> e, hasEnhanced |-> TRUE,
          isCorsError |-> IncludesCors(e.message) \/ e.code = "ERR_NETWORK",
          isNetworkError |-> e.code = "ERR_NETWORK" \/ ~e.response.present,
          status |-> ResponseStatus(e), message |-> e.message]
    ELSE [present |-> TRUE, enableLogging |-> FALSE, raw |-> e, hasEnhanced |-> FALSE,
          isCorsError |-> FALSE, isNetworkError |-> FALSE, status |-> Undefined,
          message |-> e.message]

\* formatError(err) of the template component.
FormatError(rj) ==
  IF rj.hasEnhanced /\ rj.isCorsError
    THEN <<"CORS Error: ", rj.message, ". Check server CORS configuration.">>
  ELSE IF rj.hasEnhanced /\ Truthy(rj.status)
    THEN <<"HTTP ", ToString(rj.status), ": ", "Request failed">>
  ELSE <<IF rj.message # "" THEN rj.message ELSE "Unknown connection error">>

Init ==
  /\ client = "api"
  /\ retryAttempts = DefaultRetryAttempts
  /\ req = FreshRequest
  /\ tpc = "idle"
  /\ sent = 0
  /\ netFails = 0
  /\ delay = 0
  /\ raw = NoRaw
  /\ err = NoError
  /\ resp = NoBody
  /\ caller = "none"
  /\ delivered = NothingDelivered
  /\ records = <<>>
  /\ endpoint = "https://render-marketing-db.onrender.com"
  /\ targetTable = DefaultTargetTable
  /\ useMCP = TRUE
  /\ isUploading = FALSE
  /\ uploadResult = NoResult
  /\ toast = NoToast
  /\ postCalls = 0
  /\ wire = NoWire
  /\ ipc = "idle"
  /\ sheetUrl = NoUrl
  /\ requests = <<>>
  /\ firstOutcome = NoOutcome
  /\ lastOutcome = NoOutcome
  /\ papa = NoPapa
  /\ parseResult = NoParseResult
  /\ handed = <<>>
  /\ previewRecords = <<>>
  /\ columns = <<>>
  /\ payload = NoPayload
  /\ probe = "none"
  /\ ppc = "idle"
  /\ preq = FreshRequest
  /\ probeLog = <<>>
  /\ legs = <<>>
  /\ probeResult = NoProbeResult
  /\ tests = 0
  /\ conn = Unmounted
  /\ rejection = NoRejection

\* The instance c is called with request config rq: the first request goes out.
StartCall(c, rq) ==
  /\ client' = c
  /\ req' = rq
  /\ tpc' = "inflight"
  /\ sent' = 1
  /\ netFails' = 0
  /\ delay' = 0
  /\ raw' = NoRaw
  /\ err' = NoError
  /\ resp' = NoBody

\* ------------------------------------------------------ transport actions
\* The attempt in flight succeeds with a 2xx answer: response interceptor.
RespondOk(b) ==
  /\ tpc = "inflight"
  /\ tpc' = "resolved"
  /\ resp' = b
  /\ raw' = [NoRaw EXCEPT !.kind = "ok"]
  /\ UNCHANGED <<client, retryAttempts, req, sent, netFails, delay, err,
                 caller, delivered>>
  /\ UNCHANGED formVars
  /\ UNCHANGED <<importVars, formatVars, diagVars>>
  /\ UNCHANGED previewVars

\* The attempt in flight fails with axios error e: response error interceptor,
\* up to its await (retry branch) or its Promise.reject.
RespondError(e) ==
  /\ tpc = "inflight"
  /\ raw' = e
  /\ netFails' = IF e.code = "ERR_NETWORK" /\ netFails = sent - 1
                 THEN netFails + 1 ELSE netFails
  /\ IF ShouldRetry(client, e, req, retryAttempts)
     THEN /\ req' = MarkRetry(req)
          /\ delay' = BackoffDelay(client, req'._retryCount)
          /\ tpc' = "waiting"
          /\ UNCHANGED err
     ELSE /\ err' = EnhancedError(client, e, req)
          /\ tpc' = "rejected"
          /\ UNCHANGED <<req, delay>>
  /\ UNCHANGED <<client, retryAttempts, sent, resp, caller, delivered>>
  /\ UNCHANGED formVars
  /\ UNCHANGED <<importVars, formatVars, diagVars>>
  /\ UNCHANGED previewVars

\* The backoff timer fires: return apiClient(originalRequest).
Resend ==
  /\ tpc = "waiting"
  /\ sent < MaxSent
  /\ sent' = sent + 1
  /\ tpc' = "inflight"
  /\ UNCHANGED <<client, retryAttempts, req, netFails, delay, raw, err, resp,
                 caller, delivered>>
  /\ UNCHANGED formVars
  /\ UNCHANGED <<importVars, formatVars, diagVars>>
  /\ UNCHANGED previewVars

\* ------------------------------------------------------ direct entry points
\* createRenderApiClient(config): throws when config.baseURL is missing.
CreateRenderApiClient(hasBaseURL, ra) ==
  /\ caller = "none"
  /\ IF hasBaseURL
     THEN /\ retryAttempts' = ra
          /\ delivered' = Delivered("createRenderApiClient", "value")
     ELSE /\ delivered' = Delivered("createRenderApiClient", "exception")
          /\ UNCHANGED retryAttempts
  /\ UNCHANGED <<caller>>
  /\ UNCHANGED transportVars
  /\ UNCHANGED formVars
  /\ UNCHANGED <<importVars, formatVars, diagVars>>
  /\ UNCHANGED previewVars

\* postData(endpoint, data) of the template: throws without a client,
\* otherwise awaits apiClient.post with no request config.
PostData(configured) ==
  /\ caller = "none"
  /\ IF configured
     THEN /\ StartCall("render", FreshRequest)
          /\ caller' = "postData"
          /\ delivered' = NothingDelivered
     ELSE /\ delivered' = Delivered("postData", "exception")
          /\ UNCHANGED caller
          /\ UNCHANGED transportVars
  /\ UNCHANGED retryAttempts
  /\ UNCHANGED formVars
  /\ UNCHANGED <<importVars, formatVars, diagVars>>
  /\ UNCHANGED previewVars

\* A caller uses an exported axios instance directly with its own request
\* config: apiClient.post(url, data, config).
ClientRequest(c, n) ==
  /\ caller = "none"
  /\ StartCall(c, [_retry |-> FALSE, _retryCount |-> n])
  /\ caller' = "request"
  /\ delivered' = NothingDelivered
  /\ UNCHANGED retryAttempts
  /\ UNCHANGED formVars
  /\ UNCHANGED <<importVars, formatVars, diagVars>>
  /\ UNCHANGED previewVars

\* The awaited promise settles for postData / a direct request: a resolved
\* promise is returned as a value, a rejected one propagates to the caller.
DirectSettle ==
  /\ caller \in {"postData", "request"}
  /\ tpc \in {"resolved", "rejected"}
  /\ delivered' = Delivered(caller,
                            IF tpc = "resolved" /\ ~(caller = "postData" /\ resp.isNull)
                            THEN "value" ELSE "exception")
  /\ caller' = "none"
  /\ UNCHANGED retryAttempts
  /\ UNCHANGED transportVars
  /\ UNCHANGED formVars
  /\ UNCHANGED <<importVars, formatVars, diagVars>>
  /\ UNCHANGED previewVars

\* The submission functions and the instance each posts with.
SubmissionFunctions == {"postMarketingCompanies", "mcpDirectInsert"}
ClientOf(fn) == IF fn = "mcpDirectInsert" THEN "mcp" ELSE "api"

\* A module calls a submission function itself (the MCP tester does so with
\* sample data): the function posts { records, target_table } to /insert.
CallSubmission(fn, rs) ==
  /\ caller = "none"
  /\ StartCall(ClientOf(fn), FreshRequest)
  /\ wire' = [records |-> rs, target_table |-> DefaultTargetTable,
              via |-> ClientOf(fn)]
  /\ caller' = fn
  /\ delivered' = NothingDelivered
  /\ UNCHANGED <<retryAttempts, records, endpoint, targetTable, useMCP,
                 isUploading, uploadResult, toast, postCalls>>
  /\ UNCHANGED <<importVars, formatVars, diagVars>>
  /\ UNCHANGED previewVars

\* The awaited post settled: the submission function returns its result.
SubmissionReturn ==
  /\ caller \in SubmissionFunctions
  /\ tpc \in {"resolved", "rejected"}
  /\ LET r == IF caller = "mcpDirectInsert"
              THEN McpDirectInsert(wire.records, tpc = "resolved", resp, err)
              ELSE PostMarketingCompanies(wire.records, tpc = "resolved", resp, err)
     IN delivered' = Delivered(caller, IF r.thrown THEN "exception" ELSE "value")
  /\ caller' = "none"
  /\ UNCHANGED retryAttempts
  /\ UNCHANGED transportVars
  /\ UNCHANGED formVars
  /\ UNCHANGED <<importVars, formatVars, diagVars>>
  /\ UNCHANGED previewVars

\* setRecords(data) and the render of RecordPreviewTable that follows it.
DataParsed(rs) ==
  /\ records' = rs
  /\ handed' = rs
  /\ previewRecords' = PreviewSlice(rs)
  /\ columns' = PreviewColumns(rs)

\* ------------------------------------------------------ form actions
\* Index.handleDataParsed -> setRecords(data): the form gets new props.
SetRecords(rs) ==
  /\ caller = "none"
  /\ DataParsed(rs)
  /\ UNCHANGED <<retryAttempts, caller, delivered, endpoint, targetTable, useMCP,
                 isUploading, uploadResult, toast, postCalls, wire>>
  /\ UNCHANGED transportVars
  /\ UNCHANGED <<importVars, formatVars, diagVars>>

\* onChange of the endpoint input.
SetEndpoint(e) ==
  /\ caller = "none"
  /\ endpoint' = e
  /\ UNCHANGED <<retryAttempts, caller, delivered, records, targetTable, useMCP,
                 isUploading, uploadResult, toast, postCalls, wire>>
  /\ UNCHANGED transportVars
  /\ UNCHANGED <<importVars, formatVars, diagVars>>
  /\ UNCHANGED previewVars

\* onChange of the target-table input.
SetTargetTable(t) ==
  /\ caller = "none"
  /\ targetTable' = t
  /\ UNCHANGED <<retryAttempts, caller, delivered, records, endpoint, useMCP,
                 isUploading, uploadResult, toast, postCalls, wire>>
  /\ UNCHANGED transportVars
  /\ UNCHANGED <<importVars, formatVars, diagVars>>
  /\ UNCHANGED previewVars

\* onChange of the connection-method radio buttons.
SetUseMCP(b) ==
  /\ caller = "none"
  /\ useMCP' = b
  /\ UNCHANGED <<retryAttempts, caller, delivered, records, endpoint, targetTable,
                 isUploading, uploadResult, toast, postCalls, wire>>
  /\ UNCHANGED transportVars
  /\ UNCHANGED <<importVars, formatVars, diagVars>>
  /\ UNCHANGED previewVars

\* Variant: the empty-records test missing from handleSubmit.
NoRecordsNever(rs) == FALSE

\* records.length === 0 : the first early return of handleSubmit.
NoRecords(rs) == Len(rs) = 0

\* import.meta.env.VITE_API_URL at build time: unset, or a URL.
EnvApiUrls == {"", "https://api.example.com"}
\* baseURL of the axios instance a submission goes through.
BaseUrl(via, env) ==
  IF env # "" THEN env
  ELSE IF via = "mcp" THEN "https://render-marketing-db.onrender.com"
  ELSE "http://localhost:3000"

\* Variant: the submit button also disabled while the connection check
\* reports an error.
SubmitDisabledOnProbeError(uploading) == uploading \/ conn.status = "error"

\* The isUploading part of the submit button's disabled condition.
SubmitDisabled(uploading) == uploading

\* targetTable.trim() || default
EffectiveTargetTable(t) == IF t = "" THEN DefaultTargetTable ELSE t

\* handleSubmit up to its await: the two early returns, then the call of
\* mcpDirectInsert / postMarketingCompanies, which posts to /insert.
HandleSubmit ==
  /\ caller # "request"
  /\ ~SubmitDisabled(isUploading)
  /\ IF NoRecords(records)
     THEN /\ toast' = [NoToast EXCEPT !.variant = "destructive", !.title = "No Data",
                                      !.description = <<"Please upload a file first">>]
          /\ UNCHANGED <<caller, isUploading, uploadResult, postCalls, wire>>
          /\ UNCHANGED transportVars
     ELSE IF endpoint = ""
     THEN /\ toast' = [NoToast EXCEPT !.variant = "destructive",
                                      !.title = "Missing Endpoint",
                                      !.description = <<"Please enter your Render API endpoint">>]
          /\ UNCHANGED <<caller, isUploading, uploadResult, postCalls, wire>>
          /\ UNCHANGED transportVars
     ELSE /\ isUploading' = TRUE
          /\ uploadResult' = NoResult
          /\ StartCall(IF useMCP THEN "mcp" ELSE "api", FreshRequest)
          /\ postCalls' = 1
          /\ wire' = [records |-> records,
                      target_table |-> EffectiveTargetTable(targetTable),
                      via |-> IF useMCP THEN "mcp" ELSE "api"]
          /\ caller' = "form"
          /\ UNCHANGED toast
  /\ UNCHANGED <<retryAttempts, delivered, records, endpoint, targetTable, useMCP>>
  /\ UNCHANGED <<importVars, formatVars, diagVars>>
  /\ UNCHANGED previewVars

\* Variant: a failed batch is posted again.
ResubmitAfterFailure(r) == ~r.success

\* Does the submission function post the batch again after this result?
ResubmitAfter(r) == FALSE

\* Variant: setIsUploading(false) on the success path only.
UploadingAfterSettleOnSuccess(r) == ~r.success

\* isUploading after the finally block of handleSubmit, whatever r was.
UploadingAfterSettle(r) == FALSE

\* handleSubmit after its await: the submission function builds its result
\* from the settled promise, then setUploadResult, the toast and the finally.
SubmitSettle ==
  /\ caller = "form"
  /\ tpc \in {"resolved", "rejected"}
  /\ LET r == IF wire.via = "mcp"
              THEN McpDirectInsert(wire.records, tpc = "resolved", resp, err)
              ELSE PostMarketingCompanies(wire.records, tpc = "resolved", resp, err)
     IN IF ResubmitAfter(r) /\ postCalls < MaxSent
        THEN /\ StartCall(client, FreshRequest)
             /\ postCalls' = postCalls + 1
             /\ UNCHANGED <<caller, delivered, isUploading, uploadResult, toast>>
        ELSE /\ uploadResult' = IF r.thrown THEN uploadResult ELSE r
             /\ toast' = SubmitToast(r)
             /\ delivered' = Delivered(IF wire.via = "mcp" THEN "mcpDirectInsert"
                                        ELSE "postMarketingCompanies",
                                        IF r.thrown THEN "exception" ELSE "value")
             /\ isUploading' = UploadingAfterSettle(r)
             /\ caller' = "none"
             /\ UNCHANGED postCalls
             /\ UNCHANGED transportVars
  /\ UNCHANGED <<retryAttempts, records, endpoint, targetTable, useMCP, wire>>
  /\ UNCHANGED <<importVars, formatVars, diagVars>>
  /\ UNCHANGED previewVars

\* ------------------------------------------------- parseCsv.ts : actions
\* Everything outside the parser and the sheet importer.
outsideImport ==
  <<transportVars, endpoint, targetTable, useMCP, isUploading, uploadResult,
    toast, postCalls, wire, formatVars, retryAttempts, caller, diagVars>>

\* The promise of entry settles with r; FileDrop hands the data of a result
\* without error to onDataParsed.
ImportSettles(entry, r) ==
  /\ parseResult' = r
  /\ delivered' = Delivered(entry, IF r.thrown THEN "exception" ELSE "value")
  /\ IF ~r.thrown /\ ~r.hasError
       THEN DataParsed(r.data)
       ELSE UNCHANGED <<records, previewVars>>

\* parseGoogleSheetUrl(url) up to its first await: the url is validated and
\* the direct export is requested.
ParseGoogleSheetUrl(u) ==
  /\ ipc \in {"idle", "done"}
  /\ sheetUrl' = u
  /\ firstOutcome' = NoOutcome
  /\ lastOutcome' = NoOutcome
  /\ papa' = NoPapa
  /\ IF SheetIdMatch(u) = ""
       THEN /\ requests' = <<>>
            /\ ipc' = "done"
            /\ ImportSettles("parseGoogleSheetUrl", ParseFailure(InvalidUrlError))
       ELSE /\ requests' = <<CsvUrl(u)>>
            /\ ipc' = "fetch1"
            /\ parseResult' = NoParseResult
            /\ UNCHANGED <<delivered, records, previewVars>>
  /\ UNCHANGED outsideImport

\* The fetch of the direct export comes back with o.
DirectResponse(o) ==
  /\ ipc = "fetch1"
  /\ firstOutcome' = o
  /\ lastOutcome' = o
  /\ IF o.kind = "throw"
       THEN /\ ImportSettles("parseGoogleSheetUrl", ImportCatch(o.message))
            /\ ipc' = "done"
            /\ UNCHANGED <<requests, papa>>
     ELSE IF ResponseOk(o.status)
       THEN /\ ImportSettles("parseGoogleSheetUrl", DirectBody(o))
            /\ papa' = IF o.body \in {"rows", "malformed"} THEN PapaParse(o.body) ELSE NoPapa
            /\ ipc' = "done"
            /\ UNCHANGED requests
     ELSE IF TriesAlternative(o)
       THEN /\ requests' = Append(requests, AltCsvUrl(sheetUrl))
            /\ ipc' = "fetch2"
            /\ UNCHANGED <<parseResult, delivered, papa, records, previewVars>>
     ELSE /\ ImportSettles("parseGoogleSheetUrl", StatusFailure(o.status))
          /\ ipc' = "done"
          /\ UNCHANGED <<requests, papa>>
  /\ UNCHANGED sheetUrl
  /\ UNCHANGED outsideImport

\* The fetch of the alternative export comes back with o.
AltResponse(o) ==
  /\ ipc = "fetch2"
  /\ lastOutcome' = o
  /\ IF AltYields(o)
       THEN /\ papa' = PapaParse(o.body)
            /\ ImportSettles("parseGoogleSheetUrl", AltSheetComplete(PapaParse(o.body)))
       ELSE /\ papa' = NoPapa
            /\ ImportSettles("parseGoogleSheetUrl", StatusFailure(firstOutcome.status))
  /\ ipc' = "done"
  /\ UNCHANGED <<sheetUrl, requests, firstOutcome>>
  /\ UNCHANGED outsideImport

\* parseFile(file) for a file with extension ext whose content is c.
ParseFile(ext, c) ==
  /\ ipc \in {"idle", "done"}
  /\ ipc' = "idle"
  /\ sheetUrl' = NoUrl
  /\ requests' = <<>>
  /\ firstOutcome' = NoOutcome
  /\ lastOutcome' = NoOutcome
  /\ papa' = ParseFilePapa(ext, c)
  /\ ImportSettles("parseFile", ParseFileResult(ext, c))
  /\ UNCHANGED outsideImport

\* ------------------------------------------------- formatter calls
outsideFormat ==
  <<transportVars, formVars, importVars, previewVars, retryAttempts, caller, delivered,
    diagVars>>

\* formatRenderInsertPayload(data, targetTable, { addTimestamp })
ApplyFormatRenderInsertPayload(d, t, addTimestamp) ==
  /\ payload' = FormatRenderInsertPayload(d, t, addTimestamp)
  /\ UNCHANGED outsideFormat

\* formatRenderPayload(records, targetTable)
ApplyFormatRenderPayload(d, t) ==
  /\ payload' = FormatRenderPayload(d, t)
  /\ UNCHANGED outsideFormat

\* formatCsvPayload(csvRecords, targetTable, fieldMapping)
ApplyFormatCsvPayload(d, t, m) ==
  /\ payload' = FormatCsvPayload(d, t, m)
  /\ UNCHANGED outsideFormat

\* postMarketingCompanies(records, targetTable) building requestData
ApplyRequestData(rs, t) ==
  /\ payload' = RequestData(rs, t)
  /\ UNCHANGED outsideFormat

\* ------------------------------------------------- diagnostic probes : actions
outsideProbes ==
  <<transportVars, formVars, importVars, previewVars, formatVars, retryAttempts,
    caller, conn, rejection>>

\* A probe of corsDebugger.ts is called: its fetch of /api/health goes out.
StartFetchProbe(p) ==
  /\ probe = "none"
  /\ probe' = p
  /\ ppc' = "health"
  /\ probeLog' = <<Request("GET", LegPath("health"))>>
  /\ legs' = <<>>
  /\ probeResult' = NoProbeResult
  /\ UNCHANGED <<preq, tests, delivered>>
  /\ UNCHANGED outsideProbes

\* The fetch comes back with o and the probe returns.
FetchProbeResponds(o) ==
  /\ probe \in FetchProbes
  /\ legs' = <<IF FetchOk(o) THEN "ok" ELSE "fail">>
  /\ probeResult' = FetchProbeResult(probe, o)
  /\ delivered' = Delivered(probe, IF probeResult'.thrown THEN "exception" ELSE "value")
  /\ probe' = "none"
  /\ ppc' = "idle"
  /\ UNCHANGED <<preq, probeLog, tests>>
  /\ UNCHANGED outsideProbes

\* A health probe is called; configured: the template client exists
\* (VITE_API_URL is set; services/api always exists).
StartHealthProbe(p, configured) ==
  /\ probe = "none"
  /\ legs' = <<>>
  /\ preq' = FreshRequest
  /\ IF configured \/ p = "services.checkHealth"
       THEN /\ probe' = p
            /\ ppc' = "health"
            /\ probeLog' = <<Request("GET", LegPath("health"))>>
            /\ probeResult' = NoProbeResult
            /\ UNCHANGED delivered
       ELSE /\ probeLog' = <<>>
            /\ probeResult' = HealthProbeResult(p, FALSE, <<>>)
            /\ delivered' = Delivered(p, IF probeResult'.thrown THEN "exception" ELSE "value")
            /\ UNCHANGED <<probe, ppc>>
  /\ UNCHANGED tests
  /\ UNCHANGED outsideProbes

\* The request a health probe awaits succeeds: the probe returns.
HealthRespondOk ==
  /\ probe \in HealthProbes
  /\ legs' = Append(legs, "ok")
  /\ probeResult' = HealthProbeResult(probe, TRUE, legs')
  /\ delivered' = Delivered(probe, "value")
  /\ probe' = "none"
  /\ ppc' = "idle"
  /\ UNCHANGED <<preq, probeLog, tests>>
  /\ UNCHANGED outsideProbes

\* The request a health probe awaits fails with e: the interceptor resends
\* it, or the probe goes on to its fallback request, or it ends.
HealthRespondError(e) ==
  /\ probe \in HealthProbes
  /\ IF ShouldRetry(ClientOfProbe(probe), e, preq, retryAttempts)
       THEN /\ preq' = MarkRetry(preq)
            /\ probeLog' = Append(probeLog, Request("GET", LegPath(ppc)))
            /\ UNCHANGED <<probe, ppc, legs, probeResult, delivered>>
     ELSE IF ppc = "health"
       THEN /\ legs' = Append(legs, "fail")
            /\ ppc' = "fallback"
            /\ preq' = FreshRequest
            /\ probeLog' = Append(probeLog, Request("GET", LegPath("fallback")))
            /\ UNCHANGED <<probe, probeResult, delivered>>
     ELSE /\ legs' = Append(legs, "fail")
          /\ probeResult' = HealthProbeResult(probe, TRUE, legs')
          /\ delivered' = Delivered(probe, IF probeResult'.thrown THEN "exception" ELSE "value")
          /\ probe' = "none"
          /\ ppc' = "idle"
          /\ UNCHANGED <<preq, probeLog>>
  /\ UNCHANGED tests
  /\ UNCHANGED outsideProbes

\* runAllTests of EnhancedApiTester / testEndpoints of ApiTester starts.
RunTests(panel) ==
  /\ probe = "none"
  /\ probe' = panel
  /\ tests' = 1
  /\ probeLog' = <<>>
  /\ legs' = <<>>
  /\ probeResult' = NoProbeResult
  /\ UNCHANGED <<ppc, preq, delivered>>
  /\ UNCHANGED outsideProbes

\* The panel runs its next test; ok: the first request of the test succeeds.
TestStep(ok) ==
  /\ probe \in TesterPanels
  /\ probeLog' = probeLog \o TestRequests(probe, tests, ok)
  /\ IF tests < TestCount(probe)
       THEN /\ tests' = tests + 1
            /\ UNCHANGED probe
       ELSE /\ tests' = 0
            /\ probe' = "none"
  /\ UNCHANGED <<ppc, preq, legs, probeResult, delivered>>
  /\ UNCHANGED outsideProbes

\* ------------------------------------------------- connection status : actions
outsideStatus ==
  <<transportVars, formVars, importVars, previewVars, formatVars, probeVars,
    retryAttempts, caller, delivered>>

\* First render of the component.
MountConnectionStatus(component, autoCheck) ==
  /\ conn = Unmounted
  /\ conn' = [component |-> component, autoCheck |-> autoCheck,
              effectPending |-> TRUE, status |-> InitialStatus(component),
              isLoading |-> FALSE, inFlight |-> "none", error |-> <<>>,
   corsTestResult |-> "null", lastCheck |-> "null"]
  /\ UNCHANGED rejection
  /\ UNCHANGED outsideStatus

\* checkConnection up to its await.
StartCheck(c) ==
  [c EXCEPT !.isLoading = TRUE, !.status = "checking", !.error = <<>>,
            !.inFlight = "check"]

\* The effect of the first render.
MountEffect ==
  /\ conn.effectPending
  /\ conn' = IF RunsCheckOnMount(conn.component, conn.autoCheck)
               THEN [StartCheck(conn) EXCEPT !.effectPending = FALSE]
               ELSE [conn EXCEPT !.effectPending = FALSE]
  /\ UNCHANGED rejection
  /\ UNCHANGED outsideStatus

\* The check button (disabled while isLoading).
CheckConnection ==
  /\ conn.component \in ConnComponents
  /\ ~conn.effectPending
  /\ ~conn.isLoading
  /\ conn' = StartCheck(conn)
  /\ UNCHANGED rejection
  /\ UNCHANGED outsideStatus

\* The health request of the check succeeds.
CheckConnectionOk ==
  /\ conn.inFlight = "check"
  /\ conn' = [conn EXCEPT !.status = "connected", !.isLoading = FALSE,
                          !.inFlight = "none", !.lastCheck = "date"]
  /\ UNCHANGED rejection
  /\ UNCHANGED outsideStatus

\* The health request of the check fails with e.
CheckConnectionFails(e) ==
  /\ conn.inFlight = "check"
  /\ IF conn.component = "template"
       THEN /\ rejection' = CreateApiClientReject(FALSE, e)
            /\ conn' = [conn EXCEPT !.status = "error", !.isLoading = FALSE,
                                    !.inFlight = "none", !.lastCheck = "date",
                                    !.error = FormatError(rejection')]
       ELSE /\ conn' = [conn EXCEPT !.status = "error", !.isLoading = FALSE,
                                    !.inFlight = "none", !.error = <<e.message>>]
            /\ UNCHANGED rejection
  /\ UNCHANGED outsideStatus

\* The CORS test button (disabled while isLoading).
RunCorsTest ==
  /\ conn.component \in ConnComponents
  /\ ~conn.effectPending
  /\ ~conn.isLoading
  /\ conn' = [conn EXCEPT !.isLoading = TRUE, !.inFlight = "cors",
                          !.corsTestResult =
                             IF conn.component = "app" THEN "null" ELSE @]
  /\ UNCHANGED rejection
  /\ UNCHANGED outsideStatus

\* quickCorsTest returns; success: the flag of its result.
CorsTestDone(success) ==
  /\ conn.inFlight = "cors"
  /\ conn' = [conn EXCEPT !.isLoading = FALSE, !.inFlight = "none",
                          !.corsTestResult = IF success THEN "success" ELSE "failure"]
  /\ UNCHANGED rejection
  /\ UNCHANGED outsideStatus

\* The Clear Status button of the template component (never disabled).
ClearStatus ==
  /\ conn.component = "template"
  /\ ~conn.effectPending
  /\ conn' = [conn EXCEPT !.status = ClearedStatus, !.error = <<>>,
                          !.corsTestResult = "null", !.lastCheck = "null"]
  /\ UNCHANGED rejection
  /\ UNCHANGED outsideStatus

\* A request through a client made by createApiClient(config) fails with e.
ApiClientRequestFails(enableLogging, e) ==
  /\ rejection' = CreateApiClientReject(enableLogging, e)
  /\ UNCHANGED conn
  /\ UNCHANGED outsideStatus

\* ------------------------------------------------------ specification
\* Direct use of the transport clients and of the template's postData.
ClientNext ==
  \/ \E b \in ServerBodies : RespondOk(b)
  \/ \E e \in RawErrors : RespondError(e)
  \/ Resend
  \/ \E h \in BOOLEAN, ra \in RetryAttemptsValues : CreateRenderApiClient(h, ra)
  \/ \E c \in BOOLEAN : PostData(c)
  \/ \E c \in Clients, n \in InitRetryCounts : ClientRequest(c, n)
  \/ DirectSettle
  \/ \E fn \in SubmissionFunctions, rs \in RecordSets : CallSubmission(fn, rs)
  \/ SubmissionReturn

\* The ingestion form: its inputs, the submit handler and the transport
\* attempts of the submission it awaits.
FormNext ==
  \/ \E b \in ServerBodies : RespondOk(b)
  \/ \E e \in RawErrors : RespondError(e)
  \/ \E rs \in RecordSets : SetRecords(rs)
  \/ \E e \in Endpoints : SetEndpoint(e)
  \/ \E t \in TargetTables : SetTargetTable(t)
  \/ \E b \in BOOLEAN : SetUseMCP(b)
  \/ HandleSubmit
  \/ SubmitSettle

\* The file parser and the Google Sheets importer.
ParseNext ==
  \/ \E u \in SheetUrls : ParseGoogleSheetUrl(u)
  \/ \E o \in FetchOutcomes : DirectResponse(o)
  \/ \E o \in FetchOutcomes : AltResponse(o)
  \/ \E ext \in Extensions : \E c \in FileContents(ext) : ParseFile(ext, c)

\* The preview of parsed data and the submission that follows it.
PreviewNext ==
  \/ \E rs \in ParsedRowSets : SetRecords(rs)
  \/ \E e \in Endpoints : SetEndpoint(e)
  \/ HandleSubmit
  \/ \E b \in ServerBodies : RespondOk(b)
  \/ \E e \in RawErrors : RespondError(e)
  \/ SubmitSettle

\* The payload formatters applied to record sets.
FormatNext ==
  \/ \E d \in FormatInputs, t \in FormatTargets, a \in BOOLEAN :
        ApplyFormatRenderInsertPayload(d, t, a)
  \/ \E d \in FormatInputs, t \in FormatTargets : ApplyFormatRenderPayload(d, t)
  \/ \E d \in FormatInputs, t \in FormatTargets :
        d.isArray /\ ApplyRequestData(d.items, t)
  \/ \E d \in FormatInputs, t \in FormatTargets, m \in MappingNames :
        ApplyFormatCsvPayload(d, t, m)

\* One logical call through a transport client, from the request to the
\* settled promise.
RetryNext ==
  \/ \E h \in BOOLEAN, ra \in RetryAttemptsValues : CreateRenderApiClient(h, ra)
  \/ \E c \in Clients, n \in InitRetryCounts : ClientRequest(c, n)
  \/ \E b \in ServerBodies : RespondOk(b)
  \/ \E e \in RawErrors : RespondError(e)
  \/ Resend
  \/ DirectSettle

\* Every request in flight is answered or times out (timeout: 30000), and
\* the backoff timer of a retry fires.
RetryFairness ==
  /\ WF_vars((\E b \in ServerBodies : RespondOk(b)) \/ (\E e \in RawErrors : RespondError(e)))
  /\ WF_vars(Resend)

\* The diagnostic probes and the tester panels.
ProbeNext ==
  \/ \E p \in FetchProbes : StartFetchProbe(p)
  \/ \E o \in ProbeFetchOutcomes : FetchProbeResponds(o)
  \/ \E p \in HealthProbes, c \in BOOLEAN : StartHealthProbe(p, c)
  \/ HealthRespondOk
  \/ \E e \in RawErrors : HealthRespondError(e)
  \/ \E panel \in TesterPanels : RunTests(panel)
  \/ \E ok \in BOOLEAN : TestStep(ok)

\* The connection status components and the clients of createApiClient.
StatusNext ==
  \/ \E c \in ConnComponents, a \in BOOLEAN : MountConnectionStatus(c, a)
  \/ MountEffect
  \/ CheckConnection
  \/ CheckConnectionOk
  \/ \E e \in ConnErrors : CheckConnectionFails(e)
  \/ RunCorsTest
  \/ \E ok \in BOOLEAN : CorsTestDone(ok)
  \/ ClearStatus
  \/ \E l \in BOOLEAN, e \in ConnErrors : ApiClientRequestFails(l, e)

Next ==
  ClientNext \/ FormNext \/ ParseNext \/ PreviewNext \/ FormatNext \/ ProbeNext \/ StatusNext

Spec == Init /\ [][Next]_vars
SpecClient == Init /\ [][ClientNext]_vars
SpecForm == Init /\ [][FormNext]_vars
SpecParse == Init /\ [][ParseNext]_vars
SpecPreview == Init /\ [][PreviewNext]_vars
SpecFormat == Init /\ [][FormatNext]_vars
SpecProbe == Init /\ [][ProbeNext]_vars
\* One form: what the operator can do and how a submission is answered.
UploadBodies ==
  {NullBody, NoBody, [NoBody EXCEPT !.inserted = 1, !.failed = 0],
   [NoBody EXCEPT !.inserted = 0, !.failed = 1]}
UploadRecordSets == {<<>>, <<"r1">>, <<"r2", "r1">>}
UploadNext ==
  \/ \E b \in UploadBodies : RespondOk(b)
  \/ \E e \in ConnErrors : RespondError(e)
  \/ \E rs \in UploadRecordSets : SetRecords(rs)
  \/ \E e \in Endpoints : SetEndpoint(e)
  \/ \E b \in BOOLEAN : SetUseMCP(b)
  \/ HandleSubmit
  \/ SubmitSettle

\* Every request in flight is answered or times out, and a handler that
\* awaits a settled promise is resumed.
UploadFairness ==
  /\ WF_vars((\E b \in UploadBodies : RespondOk(b)) \/ (\E e \in ConnErrors : RespondError(e)))
  /\ WF_vars(SubmitSettle)
SpecUpload == Init /\ [][UploadNext]_vars /\ UploadFairness
\* The page: the form next to the connection status component.
PageRecordSets == {<<>>, <<"r1">>}
PageErrors == {RawNetwork, RawHttp(500, NoData)}
PageNext ==
  \/ MountConnectionStatus("app", TRUE)
  \/ MountEffect
  \/ CheckConnection
  \/ CheckConnectionOk
  \/ \E e \in PageErrors : CheckConnectionFails(e)
  \/ \E rs \in PageRecordSets : SetRecords(rs)
  \/ \E e \in Endpoints : SetEndpoint(e)
  \/ \E t \in TargetTables : SetTargetTable(t)
  \/ \E b \in BOOLEAN : SetUseMCP(b)
  \/ HandleSubmit
  \/ \E b \in UploadBodies : RespondOk(b)
  \/ \E e \in PageErrors : RespondError(e)
  \/ SubmitSettle
SpecPage == Init /\ [][PageNext]_vars
SpecStatus == Init /\ [][StatusNext]_vars
SpecRetry == Init /\ [][RetryNext]_vars /\ RetryFairness

\* ====================================================== claims C1 - C10
\* Retry limit the configuration announces: retryAttempts, 3 for services/api.
ConfiguredMax(c, ra) == IF c = "api" THEN 3 ELSE ra

\* C1: when a logical call through a retrying client has settled after N
\* network-class failures in a row, the client has resent the request
\* exactly min(configuredMax, N) times.
C1_ResendsMinOfMaxAndFailures ==
  (client \in RetryingClients /\ tpc \in {"resolved", "rejected"}) =>
    sent - 1 = Min(ConfiguredMax(client, retryAttempts), netFails)

\* C2: once an attempt is answered with an HTTP status >= 400 the call is
\* rejected at once with an error carrying that status; it is neither
\* waiting for a retry nor in flight again.
C2_HttpStatusRejectedWithoutRetry ==
  raw.kind = "http" =>
    /\ tpc = "rejected"
    /\ err.status = raw.response.status
    /\ err.status >= 400

\* A 403 answered to a retrying client whose request could still be retried.
C2_Witness ==
  /\ raw.kind = "http"
  /\ raw.response.status = 403
  /\ client \in RetryingClients
  /\ req = [_retry |-> FALSE, _retryCount |-> 0]
  /\ tpc = "rejected"
  /\ sent = 1

\* C3: every error a transport client rejects with is flagged with exactly
\* one of Cors, Network, Timeout, HttpStatus.
C3_ExactlyOneKind ==
  tpc = "rejected" => Cardinality(KindsOf(err)) = 1

\* C4: on a successful submission the result's inserted / failed counts are
\* the counts the server reported (0 included), and (number of records, 0)
\* only where the server omitted them.
C4_CountsAsReported ==
  (caller = "none" /\ uploadResult.present /\ uploadResult.success) =>
    /\ uploadResult.inserted =
         IF resp.inserted # Undefined THEN resp.inserted ELSE Len(wire.records)
    /\ uploadResult.failed =
         IF resp.failed # Undefined THEN resp.failed ELSE 0

\* C5: a submit action taken while the record sequence is empty sends
\* nothing (no request, no call of a submission function) and raises the
\* "No Data" toast.
C5_EmptySubmitRejectedLocally ==
  [][(Len(records) = 0 /\ caller = "none") =>
       /\ caller' = "none"
       /\ sent' = sent
       /\ tpc' = tpc
       /\ postCalls' = postCalls
       /\ wire' = wire
       /\ (toast' # toast => toast'.title = "No Data")]_vars

\* The operator submitted with no records before anything was ever sent.
C5_Witness ==
  /\ Len(records) = 0
  /\ toast.title = "No Data"
  /\ toast.variant = "destructive"
  /\ sent = 0
  /\ tpc = "idle"

\* C6: a submit action posts to /insert at most once, and when no submit
\* action is running (also after a failed one) no request is in flight or
\* scheduled.
C6_AtMostOnePostPerSubmit ==
  /\ postCalls <= 1
  /\ (caller = "none" => tpc \notin {"inflight", "waiting"})

\* A submission failed and the form is idle again after its single post.
C6_Witness ==
  /\ caller = "none"
  /\ uploadResult.present
  /\ ~uploadResult.success
  /\ tpc = "rejected"
  /\ postCalls = 1
  /\ sent = 1

\* C7: the failure result of a submission carries the status code, the
\* response body and the error kind of the error the transport rejected with.
C7_ClassificationPassedThrough ==
  (caller = "none" /\ uploadResult.present /\ ~uploadResult.success
     /\ tpc = "rejected") =>
    /\ uploadResult.errStatus = err.status
    /\ uploadResult.errData = err.data
    /\ uploadResult.hasKind
    /\ uploadResult.isCorsError = err.isCorsError
    /\ uploadResult.isNetworkError = err.isNetworkError
    /\ uploadResult.isTimeout = err.isTimeout

\* C8: the text of the "Upload Failed" toast is not empty and contains the
\* message of the error the transport rejected with.
C8_FailureTextHasMessage ==
  (caller = "none" /\ toast.title = "Upload Failed" /\ tpc = "rejected") =>
    /\ toast.description # <<>>
    /\ \E i \in DOMAIN toast.description : toast.description[i] = err.message

\* C9 as stated: no entry point of the transport layer throws or rejects.
C9_NoExceptionReachesCaller ==
  delivered.outcome # "exception"

\* C9 amended: the submission functions postMarketingCompanies and
\* mcpDirectInsert always return a value to their caller, whatever the
\* transport outcome.
C9_SubmissionFunctionsReturnValue ==
  delivered.entry \in SubmissionFunctions => delivered.outcome = "value"

\* postMarketingCompanies returned a value although its post was rejected.
C9_Witness ==
  /\ delivered = Delivered("postMarketingCompanies", "value")
  /\ caller = "none"
  /\ tpc = "rejected"
  /\ client = "api"

HasFragment(text, f) == \E i \in DOMAIN text : text[i] = f

\* The text tells the operator to make the sheet readable by link.
HasSharingGuidance(text) ==
  \/ HasFragment(text, "3. Change \"Restricted\" to \"Anyone with the link\"")
  \/ HasFragment(text, "1. Make sure the sheet is shared as \"Anyone with the link can view\"")

\* An export request failed: rejected, not 2xx, or an empty / unreadable body.
CandidateFailed(o) ==
  \/ o.kind = "throw"
  \/ o.kind = "response" /\ ~ResponseOk(o.status)
  \/ o.kind = "response" /\ o.body \in {"blank", "unreadable"}

\* The text names the reason for which the request with outcome o failed.
NamesReason(text, o) ==
  IF o.kind = "throw" THEN HasFragment(text, o.message)
  ELSE IF ~ResponseOk(o.status) THEN
    \/ HasFragment(text, ToString(o.status))
    \/ o.status = 403 /\ HasFragment(text, AccessDeniedError[1])
    \/ o.status = 404 /\ HasFragment(text, NotFoundError[1])
  ELSE IF o.body = "blank" THEN HasFragment(text, EmptySheetError[1])
  ELSE HasFragment(text, "body stream already read")

\* The import is over and its latest export request failed.
ImportFailedAtFetch ==
  /\ ipc = "done"
  /\ requests # <<>>
  /\ CandidateFailed(lastOutcome)

\* C11: parseGoogleSheetUrl called with a URL that has no
\* /spreadsheets/d/<id> segment returns the invalid-URL error with empty data
\* and issues no export request.
C11_InvalidUrlNoRequest ==
  (ipc # "idle" /\ sheetUrl.sheetId = "") =>
    /\ ipc = "done"
    /\ requests = <<>>
    /\ parseResult.present /\ parseResult.hasError
    /\ parseResult.error = InvalidUrlError
    /\ parseResult.data = <<>>

\* An import of a URL without sheet id has returned.
C11_Witness ==
  /\ ipc = "done"
  /\ sheetUrl.sheetId = ""
  /\ sheetUrl.gid = "123"
  /\ delivered = Delivered("parseGoogleSheetUrl", "value")
  /\ parseResult.error = InvalidUrlError
  /\ Len(requests) = 0

C13_GuidanceAndLastReason ==
  ImportFailedAtFetch =>
    /\ parseResult.hasError
    /\ HasSharingGuidance(parseResult.error)
    /\ NamesReason(parseResult.error, lastOutcome)

\* C13 amended: the error text is chosen by the outcome of the direct export
\* alone: it names that outcome's reason, it has the sharing guidance exactly
\* when the direct export answered 403 or 400, and after a failed gviz
\* request it is the bad-request text whatever the gviz request came back
\* with.
C13_ErrorFromDirectOutcome ==
  ImportFailedAtFetch =>
    /\ parseResult.hasError
    /\ NamesReason(parseResult.error, firstOutcome)
    /\ (HasSharingGuidance(parseResult.error) <=>
          (firstOutcome.kind = "response" /\ firstOutcome.status \in {400, 403}))
    /\ (Len(requests) = 2 =>
          parseResult.error = <<"Bad request (", "400",
             "). This usually means the sheet isn't properly shared. Please:",
             "1. Make sure the sheet is shared as \"Anyone with the link can view\"">>)

\* Both export requests failed, the second one with a 403.
C13_Witness ==
  /\ ipc = "done"
  /\ Len(requests) = 2
  /\ firstOutcome.status = 400
  /\ lastOutcome.kind = "response" /\ lastOutcome.status = 403
  /\ parseResult.hasError
  /\ HasSharingGuidance(parseResult.error)

\* C14: whenever Papa.parse reports one or more errors, the ParseResult has
\* empty data and an error, for parseFile on .csv and for both export paths
\* of parseGoogleSheetUrl.
C14_ParseErrorsFailClosed ==
  (papa.ran /\ Len(papa.errors) > 0 /\ parseResult.present) =>
    /\ parseResult.data = <<>>
    /\ parseResult.hasError

\* C15: a ParseResult that carries an error has empty data.
C15_ErrorImpliesEmptyData ==
  (parseResult.present /\ parseResult.hasError) => parseResult.data = <<>>

\* The direct export delivered CSV with an unterminated quote: Papa.parse read
\* a row and reported an error.
C15_Witness ==
  /\ ipc = "done"
  /\ Len(requests) = 1
  /\ papa.ran /\ Len(papa.data) > 0 /\ Len(papa.errors) > 0
  /\ parseResult.hasError
  /\ parseResult.data = <<>>

\* C16: parseFile and parseGoogleSheetUrl hand their caller a ParseResult
\* and never a rejection, whatever the extension, the file content, the
\* fetch outcome or the HTTP status.
C16_AlwaysReturnsResult ==
  /\ delivered.entry \in {"parseFile", "parseGoogleSheetUrl"} =>
       delivered.outcome = "value"
  /\ parseResult.present =>
       /\ ~parseResult.thrown
       /\ (parseResult.hasError <=> parseResult.error # <<>>)
  /\ (ipc = "done" => parseResult.present)

\* The fetch of the direct export was rejected and the importer returned.
C16_Witness ==
  /\ ipc = "done"
  /\ firstOutcome.kind = "throw"
  /\ delivered = Delivered("parseGoogleSheetUrl", "value")
  /\ parseResult.hasError
  /\ parseResult.error[1] = "Failed to import Google Sheet: "

\* The message class of a failed export request.
FailureClass(o) ==
  IF o.kind = "response" /\ o.status = 403 THEN "accessDenied"
  ELSE IF o.kind = "response" /\ o.status = 404 THEN "notFound"
  ELSE IF o.kind = "response" /\ ResponseOk(o.status) /\ o.body = "blank" THEN "empty"
  ELSE "generic"

\* The error text belongs to the class.
InClass(text, class) ==
  IF class = "accessDenied"
    THEN text[1] = "Access denied. Please make sure the Google Sheet is shared properly:"
         /\ HasSharingGuidance(text)
  ELSE IF class = "notFound"
    THEN text = <<"Google Sheet not found. Please check the URL and make sure the sheet exists.">>
  ELSE IF class = "empty"
    THEN text = <<"Google Sheet appears to be empty or inaccessible.">>
  ELSE text[1] \in {"Failed to fetch Google Sheet data: ", "Failed to import Google Sheet: ",
                    "Bad request ("}

\* The messages of the classes differ pairwise.
ClassMessagesDistinct ==
  Cardinality({InvalidUrlError, AccessDeniedError, NotFoundError, EmptySheetError,
               BadRequestError, FetchFailedError(500),
               ImportFailedError("Failed to fetch")}) = 7

\* C17 as stated: the error of a failed import is of the class of the export
\* request that failed, whichever request it was, and the classes have
\* different messages.
C17_EveryRequestClassified ==
  /\ ClassMessagesDistinct
  /\ ImportFailedAtFetch =>
       /\ parseResult.hasError
       /\ InClass(parseResult.error, FailureClass(lastOutcome))

\* C17 amended: the error of a failed import is of the class of the outcome
\* of the direct export request; when the direct export answered 400 and the
\* gviz request failed, in whatever way, the error is the bad-request text;
\* the classes and the invalid-URL error have different messages.
C17_DirectRequestClassified ==
  /\ ClassMessagesDistinct
  /\ ImportFailedAtFetch =>
       /\ parseResult.hasError
       /\ InClass(parseResult.error, FailureClass(firstOutcome))
       /\ (Len(requests) = 2 => parseResult.error[1] = "Bad request (")
  /\ (ipc = "done" /\ requests = <<>>) => parseResult.error = InvalidUrlError

\* The direct export answered 400 and the gviz export came back blank.
C17_Witness ==
  /\ ipc = "done"
  /\ Len(requests) = 2
  /\ lastOutcome.kind = "response" /\ lastOutcome.body = "blank"
  /\ parseResult.error[1] = "Bad request ("

\* ===================================================== claims C18 - C20
\* C18: for n parsed records the preview shows the first min(n, 10) of
\* them, the record sequence stays as it was handed over, and a submission
\* posts all n records in their order.
C18_PreviewNeverTruncatesSubmission ==
  /\ records = handed
  /\ Len(previewRecords) = Min(Len(handed), 10)
  /\ \A i \in DOMAIN previewRecords : previewRecords[i] = handed[i]
  /\ (caller = "form" => wire.records = handed)

\* Eleven records were parsed, ten are shown and all eleven are being posted.
C18_Witness ==
  /\ Len(handed) = 11
  /\ Len(previewRecords) = 10
  /\ caller = "form"
  /\ tpc = "inflight"
  /\ Len(wire.records) = 11
  /\ wire.records[11] = handed[11]

\* C19 as stated: the column list is the union of the field names of all
\* records, without repetition, ordered by first appearance (record by
\* record, key by key).
C19_ColumnsAreUnionOfKeys ==
  LET keysOf(i) == Keys(Fields(records[i]))
      names == UNION {{keysOf(i)[j] : j \in DOMAIN keysOf(i)} : i \in DOMAIN records}
      firstRecord(k) ==
        CHOOSE i \in DOMAIN records :
          /\ \E j \in DOMAIN keysOf(i) : keysOf(i)[j] = k
          /\ \A h \in 1 .. (i - 1) : \A j \in DOMAIN keysOf(h) : keysOf(h)[j] # k
      place(k) == CHOOSE j \in DOMAIN keysOf(firstRecord(k)) : keysOf(firstRecord(k))[j] = k
  IN /\ {columns[i] : i \in DOMAIN columns} = names
     /\ Len(columns) = Cardinality(names)
     /\ \A a, b \in DOMAIN columns :
          a < b =>
            \/ firstRecord(columns[a]) < firstRecord(columns[b])
            \/ /\ firstRecord(columns[a]) = firstRecord(columns[b])
               /\ place(columns[a]) < place(columns[b])

\* C19 amended: the column list is the list of keys of the first record, in
\* key order; a field that only later records have is not a column.
C19_ColumnsAreFirstRecordKeys ==
  IF Len(records) = 0
    THEN columns = <<>>
    ELSE /\ Len(columns) = Len(Fields(records[1]))
         /\ \A i \in DOMAIN columns : columns[i] = Fields(records[1])[i][1]

\* The second record has a phone field the first lacks; it is not a column.
C19_Witness ==
  /\ Len(records) >= 2
  /\ HasField(Fields(records[2]), "phone")
  /\ ~HasField(Fields(records[1]), "phone")
  /\ columns = <<"company_name", "domain">>

C30_NoSourceValueLost ==
  payload.formatter = "formatCsvPayload" =>
    /\ Len(payload.records) = Len(payload.input.items)
    /\ \A i \in DOMAIN payload.records :
         LET src == Fields(payload.input.items[i])
             out == payload.records[i]
             named == {k \in DOMAIN src : src[k][1] # "created_at"}
             mapped == {j \in DOMAIN out :
                          \E k \in named : out[j][1] = DbField(payload.mapping, src[k][1])}
         IN /\ \A k \in named :
                 FieldValue(out, DbField(payload.mapping, src[k][1])) = src[k][2]
            /\ Cardinality(mapped) = Cardinality(named)

\* C21 (as stated): every diagnostic probe returns a structured result and
\* never raises, whatever the endpoint does and whether or not the client is
\* configured.
C21_EveryProbeStructuredNeverRaises ==
  probeResult.present => ~probeResult.thrown /\ probeResult.structured

\* C21 (amended): quickCorsTest, testCorsWithCredentials, checkHealth of
\* services.js and testConnectivity return a structured result and never
\* raise; checkCorsHealth never raises and returns null or an explanation;
\* checkHealth of client.js raises exactly when the client is not configured
\* or both of its requests failed.
C21_ProbesSettleAsCoded ==
  probeResult.present =>
    /\ probeResult.probe # "client.checkHealth" => ~probeResult.thrown
    /\ probeResult.probe \notin {"client.checkHealth", "checkCorsHealth"} =>
         probeResult.structured
    /\ probeResult.probe = "checkCorsHealth" =>
         ~probeResult.structured /\ (probeResult.success <=> probeResult.message = <<>>)
    /\ probeResult.probe = "client.checkHealth" =>
         (probeResult.thrown <=> ~SomeLegOk(legs))
    /\ delivered = Delivered(probeResult.probe,
                     IF probeResult.thrown THEN "exception" ELSE "value")
C21_Witness ==
  /\ probeResult.present
  /\ probeResult.probe = "testConnectivity"
  /\ ~probeResult.success
  /\ legs = <<"fail", "fail">>

\* C22: running a diagnostic issues only GET requests and never posts
\* records to the insert endpoint.
C22_DiagnosticsOnlyGet ==
  \A i \in DOMAIN probeLog : probeLog[i].method = "GET"

\* C25: checkHealth first issues GET /api/health; GET / is issued only after
\* the health request failed and at most once; the probe reports success
\* exactly when one of its requests succeeded, and ends after two failures
\* with neither request repeated.
C25_HealthThenOneFallback ==
  LET running == probe \in HealthProbes
      done == probe = "none" /\ probeResult.present /\ probeResult.probe \in HealthProbes
  IN (running \/ done) /\ probeLog # <<>> =>
       /\ probeLog[1] = Request("GET", "/api/health")
       /\ Len(probeLog) <= 2
       /\ Len(probeLog) = 2 => probeLog[2] = Request("GET", "/") /\ legs[1] = "fail"
       /\ done => /\ Len(legs) = Len(probeLog)
                   /\ probeResult.success <=> SomeLegOk(legs)
                   /\ ~probeResult.success => legs = <<"fail", "fail">>
C25_Witness ==
  /\ probe = "none"
  /\ probeResult.present
  /\ probeResult.probe = "services.checkHealth"
  /\ ~probeResult.success
  /\ probeLog = <<Request("GET", "/api/health"), Request("GET", "/")>>

\* C26: in the connection status component, status 'checking' implies
\* isLoading in every state reached once the effect of the first render has
\* run (mount with or without autoCheck, a completed check, Clear Status);
\* with no check in flight and none cleared away the status is not 'checking'.
C26_CheckingOnlyWhileLoading ==
  (conn.component \in ConnComponents /\ ~conn.effectPending) =>
    (conn.status = "checking" => conn.isLoading /\ conn.inFlight = "check")

\* C28: for the same failure, a client created with enableLogging false and
\* one created with enableLogging true reject with the same classification
\* (isCorsError, isNetworkError, status), and formatError reports the same.
C28_ClassificationIgnoresLogging ==
  rejection.present =>
    LET other == CreateApiClientReject(~rejection.enableLogging, rejection.raw)
    IN /\ other.hasEnhanced = rejection.hasEnhanced
       /\ other.isCorsError = rejection.isCorsError
       /\ other.isNetworkError = rejection.isNetworkError
       /\ other.status = rejection.status
       /\ FormatError(other) = FormatError(rejection)

\* C29: every submit action that sets isUploading eventually sets it back
\* to false, whether the call succeeds, returns a failure or throws;
\* isUploading is true only while the call of that submit action is in
\* flight, and while it is true no further submission starts.
C29_UploadingOnlyWhileInFlight ==
  /\ [](isUploading <=> caller = "form")
  /\ [][isUploading => (wire' = wire /\ postCalls' = postCalls /\ sent' = sent)]_vars
  /\ isUploading ~> ~isUploading
C29_Witness ==
  /\ ~isUploading
  /\ caller = "none"
  /\ wire.via = "api"
  /\ delivered = Delivered("postMarketingCompanies", "value")
  /\ raw.kind = "network"
  /\ ~uploadResult.success

C27_PostGoesToEnteredEndpoint ==
  (caller = "form" /\ tpc = "inflight") =>
    \A env \in EnvApiUrls : BaseUrl(wire.via, env) = endpoint

====
